---- MODULE Spec2Model ----
(***************************************************************************)
(* A model of the chess-puzzle example construction code:                  *)
(*   src/src/samplers/base.py    BaseSampler                               *)
(*   src/src/samplers/random.py  RandomSampler, analyze_sample_distribution*)
(*                                                                         *)
(* The chess rules library (python-chess) is outside the repository.  It   *)
(* is represented by a small finite game: a handful of positions, an       *)
(* ordered list of legal moves for each, and a position string that, like  *)
(* Board.fen(), shows the en-passant square only when a capture onto it is *)
(* legal.                                                                  *)
(***************************************************************************)
EXTENDS Integers, Sequences, FiniteSets, TLC

VARIABLES pc, call, ret, sampled_df, np_random, samplers, first

vars == <<pc, call, ret, sampled_df, np_random, samplers, first>>

(***************************************************************************)
(* Bounds of the model.                                                    *)
(***************************************************************************)
MaxMoves == 3        \* longest solution move list of a single built record
MaxRecords == 3      \* most rows of a DataFrame handed to the assembler
MaxPop == 3          \* most rows of a sampled population
MaxStat == 2         \* most rows / examples handed to the analyzers

(***************************************************************************)
(* Python values.                                                          *)
(***************************************************************************)
None == "<None>"
Absent == "<absent>"
NoRet == [kind |-> "pending"]
Raise(e) == [kind |-> "raise", error |-> e]
Return(v) == [kind |-> "return", value |-> v]
ReturnNone == [kind |-> "none"]

\* Python truthiness of an optional string (None and "" are falsy).
Truthy(s) == s # None /\ s # ""

(***************************************************************************)
(* The position engine.                                                    *)
(***************************************************************************)
Pos == 0 .. 4
MoveStr == {"e2e4", "e7e5", "g1f3", "d4e3"}
EpSquares == {"-", "e3"}

\* A position string, by its fields.  pos = -1 stands for a string that
\* chess.Board cannot parse.
FenStrings == [pos : Pos \cup {-1}, ep : EpSquares]

\* Positions in which a pawn stands ready to capture onto e3.
EpCapturePos == {1}

HasLegalEnPassant(board) == board.ep = "e3" /\ board.pos \in EpCapturePos

\* chess.Board(fen)
ParseFen(fen) ==
  IF fen.pos \in Pos
    THEN Return([pos |-> fen.pos, ep |-> fen.ep])
    ELSE Raise("ValueError")

\* [move.uci() for move in board.legal_moves], in the engine's order
LegalMovesUci(board) ==
  CASE board.pos = 0 -> <<"g1f3", "e2e4">>
    [] board.pos = 1 -> IF HasLegalEnPassant(board)
                          THEN <<"d4e3", "e7e5">>
                          ELSE <<"e7e5">>
    [] board.pos = 2 -> <<"e7e5", "e2e4">>
    [] board.pos = 4 -> <<"e7e5">>
    [] OTHER -> <<>>

SeqToSet(s) == {s[i] : i \in 1 .. Len(s)}

IsLegal(board, m) == m \in SeqToSet(LegalMovesUci(board))

\* The board after a legal move: a double pawn step leaves its en-passant
\* square behind, every other move clears it.
BoardAfter(board, m) ==
  CASE board.pos = 0 /\ m = "g1f3" -> [pos |-> 2, ep |-> "-"]
    [] board.pos = 0 /\ m = "e2e4" -> [pos |-> 1, ep |-> "e3"]
    [] board.pos = 2 /\ m = "e2e4" -> [pos |-> 4, ep |-> "e3"]
    [] OTHER -> [pos |-> 3, ep |-> "-"]

\* board.push_uci(m)
PushUci(board, m) ==
  IF IsLegal(board, m) THEN Return(BoardAfter(board, m))
                       ELSE Raise("IllegalMoveError")

\* board.fen()
BoardFen(board) ==
  [pos |-> board.pos,
   ep |-> IF HasLegalEnPassant(board) THEN board.ep ELSE "-"]

(***************************************************************************)
(* BaseSampler._create_dspy_example                                        *)
(***************************************************************************)
Metadata(puzzle, control_group) ==
  [rating |-> puzzle.Rating,
   popularity |-> puzzle.Popularity,
   moves |-> puzzle.Moves,
   initial_fen |-> puzzle.FEN,
   control_group |-> IF Truthy(control_group) THEN control_group ELSE Absent]

\* Faulty variant: the keys start at 1.
EnumerateFromOne(s) == [i \in 1 .. Len(s) |-> s[i]]

\* {i: move_str for i, move_str in enumerate(legal_moves_uci)}
Enumerate(s) == [i \in 0 .. Len(s) - 1 |-> s[i + 1]]

Example(board, puzzle, metadata, move_idx) ==
  [puzzle |-> BoardFen(board),
   possible_moves |-> Enumerate(LegalMovesUci(board)),
   expected_move |-> puzzle.Moves[move_idx + 1],
   puzzle_id |-> puzzle.PuzzleId,
   metadata |-> metadata,
   move_index |-> move_idx]

\* Faulty variant: the move of the last ply is pushed too.
PushesEveryMove(move_idx, n) == move_idx < n

\* Whether the loop body pushes the move of ply move_idx.
PushesMove(move_idx, n) == move_idx < n - 1

\* The for loop over enumerate(moves), from ply move_idx on.
RECURSIVE ReplayLoop(_, _, _, _, _)
ReplayLoop(board, puzzle, metadata, move_idx, examples) ==
  IF move_idx >= Len(puzzle.Moves)
    THEN Return(examples)
    ELSE LET out == Append(examples, Example(board, puzzle, metadata, move_idx))
         IN IF PushesMove(move_idx, Len(puzzle.Moves))
              THEN LET nb == PushUci(board, puzzle.Moves[move_idx + 1])
                   IN IF nb.kind = "raise"
                        THEN nb
                        ELSE ReplayLoop(nb.value, puzzle, metadata,
                                        move_idx + 1, out)
              ELSE ReplayLoop(board, puzzle, metadata, move_idx + 1, out)

CreateDspyExample(puzzle, control_group) ==
  IF puzzle.Moves = <<>>
    THEN ReturnNone
    ELSE LET b == ParseFen(puzzle.FEN)
         IN IF b.kind = "raise"
              THEN b
              ELSE ReplayLoop(b.value, puzzle,
                              Metadata(puzzle, control_group), 0, <<>>)

(***************************************************************************)
(* BaseSampler._create_examples_from_df                                    *)
(*                                                                         *)
(* A DataFrame is the sequence of its rows in iteration order, each with   *)
(* its index label (idx) and its record.  control_groups is a Series of    *)
(* labels, or absent.                                                      *)
(***************************************************************************)
NoSeries == [present |-> FALSE]
Series(values) == [present |-> TRUE, values |-> values]

\* Series.iloc[i]: by position, negative positions counting from the end.
Iloc(series, i) ==
  LET n == Len(series.values)
  IN IF i >= 0 /\ i < n THEN Return(series.values[i + 1])
     ELSE IF i < 0 /\ i >= 0 - n THEN Return(series.values[n + i + 1])
     ELSE Raise("IndexError")

\* The number handed to control_groups.iloc for the p-th row (1-based) of
\* df.iterrows(): the row's index label.
LabelIndex(df, p) == df[p].idx

\* control_groups.iloc[idx] if control_groups is not None else None
ControlGroupOf(df, control_groups, p) ==
  IF control_groups.present
    THEN Iloc(control_groups, LabelIndex(df, p))
    ELSE Return(None)

\* Faulty variant: the examples of a record go in front of the earlier ones.
ExtendFront(all_examples, puzzle_examples) == puzzle_examples \o all_examples

\* all_examples.extend(puzzle_examples)
Extend(all_examples, puzzle_examples) == all_examples \o puzzle_examples

\* The for loop over df.iterrows(), from the p-th row on.
RECURSIVE AssembleLoop(_, _, _, _)
AssembleLoop(df, control_groups, p, all_examples) ==
  IF p > Len(df)
    THEN Return(all_examples)
    ELSE LET control_group == ControlGroupOf(df, control_groups, p)
         IN IF control_group.kind = "raise"
              THEN control_group
              ELSE LET puzzle_examples ==
                         CreateDspyExample(df[p].puzzle, control_group.value)
                   IN CASE puzzle_examples.kind = "raise" -> puzzle_examples
                        [] puzzle_examples.kind = "return"
                             /\ puzzle_examples.value # <<>> ->
                             AssembleLoop(df, control_groups, p + 1,
                                Extend(all_examples, puzzle_examples.value))
                        [] OTHER ->
                             AssembleLoop(df, control_groups, p + 1,
                                          all_examples)

CreateExamplesFromDf(df, control_groups) ==
  AssembleLoop(df, control_groups, 1, <<>>)

(***************************************************************************)
(* The random number generators.  numpy's generator is outside the         *)
(* repository; it is represented by a small linear congruential generator  *)
(* and the shuffle numpy's permutation() performs with it.                 *)
(***************************************************************************)
RngStates == 0 .. 15

\* RandomState(seed), np.random.seed(seed)
SeedState(seed) == seed % 16

NextState(s) == (5 * s + 3) % 16

Swap(x, i, j) == [x EXCEPT ![i] = x[j], ![j] = x[i]]

\* The shuffle from place i (1-based) down to the second place.
RECURSIVE Shuffle(_, _, _)
Shuffle(x, i, s) ==
  IF i <= 1 THEN x
  ELSE LET s2 == NextState(s)
       IN Shuffle(Swap(x, i, (s2 % i) + 1), i - 1, s2)

\* random_state.permutation(n): the row places 1 .. n in drawn order
Permutation(n, s) == Shuffle([i \in 1 .. n |-> i], n, s)

(***************************************************************************)
(* BaseSampler.__init__ and RandomSampler.create_sample                    *)
(*                                                                         *)
(* A population is a DataFrame given by its column names and its rows.     *)
(***************************************************************************)
DefaultSeed == 42

Min(a, b) == IF a < b THEN a ELSE b

\* Faulty variant: the draw uses the process-wide generator.
GlobalState(random_state) == np_random

\* The generator df.sample draws from when handed random_state as an int:
\* a fresh one seeded with it.
SampleState(random_state) == SeedState(random_state)

\* Faulty variant: the requested size is passed on as it is.
Unclamped(sample_size, n) == sample_size

\* n=min(sample_size, len(df))
SampleCount(sample_size, n) == Min(sample_size, n)

\* df.sample(n=n, random_state=random_state), without replacement
DfSample(df, n, random_state) ==
  IF n < 0 \/ n > Len(df.rows)
    THEN Raise("ValueError")
    ELSE LET perm == Permutation(Len(df.rows), SampleState(random_state))
         IN Return([i \in 1 .. n |-> df.rows[perm[i]]])

\* {str(i): move.uci() for i, move in enumerate(board.legal_moves)}
EnumerateStr(s) ==
  [k \in {ToString(i) : i \in 0 .. Len(s) - 1} |->
     s[(CHOOSE i \in 0 .. Len(s) - 1 : ToString(i) = k) + 1]]

\* The columns the dspy.Example(...) expression of create_sample reads.
ExampleColumns ==
  {"puzzle_fen", "expected_move", "PuzzleId", "Rating", "Popularity",
   "RatingDeviation", "Themes", "FEN", "opponent_move"}

Continue == [kind |-> "continue"]

\* The body of the try statement, for one row.
TryBody(df, row) ==
  IF "puzzle_fen" \notin df.columns
    THEN Raise("KeyError")
    ELSE LET board == ParseFen(row.puzzle_fen)
         IN IF board.kind = "raise"
              THEN board
              ELSE LET legal_moves == EnumerateStr(LegalMovesUci(board.value))
                   IN IF DOMAIN legal_moves = {}
                        THEN Continue
                        ELSE IF ~(ExampleColumns \subseteq df.columns)
                               THEN Raise("KeyError")
                               ELSE Return([puzzle |-> row.puzzle_fen,
                                            possible_moves |-> legal_moves,
                                            expected_move |-> row.expected_move,
                                            puzzle_id |-> row.PuzzleId,
                                            metadata |->
                                              [rating |-> row.Rating,
                                               popularity |-> row.Popularity]])

\* The except clause: it prints row['PuzzleId'], then continues.
ExceptClause(df, row) ==
  IF "PuzzleId" \in df.columns THEN Continue ELSE Raise("KeyError")

\* The for loop over sampled_df.iterrows(), from the p-th row on.
RECURSIVE SampleLoop(_, _, _, _)
SampleLoop(df, sampled, p, examples) ==
  IF p > Len(sampled)
    THEN Return(examples)
    ELSE LET r == TryBody(df, sampled[p])
             after == IF r.kind = "raise" THEN ExceptClause(df, sampled[p]) ELSE r
         IN CASE after.kind = "raise" -> after
              [] after.kind = "return" ->
                   SampleLoop(df, sampled, p + 1, Append(examples, after.value))
              [] OTHER -> SampleLoop(df, sampled, p + 1, examples)

\* The rows create_sample draws (sampled_df), or the error of the draw.
SampledDf(random_state, df, sample_size) ==
  DfSample(df, SampleCount(sample_size, Len(df.rows)), random_state)

CreateSample(random_state, df, sample_size) ==
  LET sampled == SampledDf(random_state, df, sample_size)
  IN IF sampled.kind = "raise"
       THEN sampled
       ELSE SampleLoop(df, sampled.value, 1, <<>>)

(***************************************************************************)
(* BaseSampler.analyze_distribution and analyze_sample_distribution        *)
(***************************************************************************)
RECURSIVE SumSeq(_)
SumSeq(v) == IF v = <<>> THEN 0 ELSE Head(v) + SumSeq(Tail(v))

\* Series.describe(): count, and for a non-empty series the total (which
\* with count gives the mean), min and max; for an empty series the
\* statistics other than count are NaN.
Describe(v) ==
  IF v = <<>>
    THEN [count |-> 0]
    ELSE [count |-> Len(v), total |-> SumSeq(v),
          min |-> CHOOSE x \in SeqToSet(v) : \A y \in SeqToSet(v) : x <= y,
          max |-> CHOOSE x \in SeqToSet(v) : \A y \in SeqToSet(v) : x >= y]

\* The keys of the dict appended to sample_data for each example.
MethodKeys == {"rating", "popularity", "rating_deviation", "themes"}
FunctionKeys == {"rating", "popularity", "rating_deviation"}

\* pd.DataFrame(sample_data): the columns are the keys of the row dicts, so
\* a frame made from an empty list has no column.
SampleFrame(sampled_examples, keys) ==
  [columns |-> IF sampled_examples = <<>> THEN {} ELSE keys,
   rating |-> [i \in 1 .. Len(sampled_examples) |->
                 sampled_examples[i].metadata.rating],
   popularity |-> [i \in 1 .. Len(sampled_examples) |->
                     sampled_examples[i].metadata.popularity]]

\* sample_df[column]
Column(frame, column) ==
  IF column \in frame.columns THEN Return(frame[column]) ELSE Raise("KeyError")

ColumnOfRows(rows, column) == [i \in 1 .. Len(rows) |-> rows[i][column]]

\* The body shared by the method and the module-level function.
Analyze(population_df, sampled_examples, keys) ==
  LET sample_df == SampleFrame(sampled_examples, keys)
      pop_rating_stats == Describe(ColumnOfRows(population_df, "Rating"))
      sample_rating == Column(sample_df, "rating")
      pop_popularity_stats == Describe(ColumnOfRows(population_df, "Popularity"))
      sample_popularity == Column(sample_df, "popularity")
  IN IF sample_rating.kind = "raise" THEN sample_rating
     ELSE IF sample_popularity.kind = "raise" THEN sample_popularity
     ELSE Return([rating_stats |->
                    [population |-> pop_rating_stats,
                     sample |-> Describe(sample_rating.value)],
                  popularity_stats |->
                    [population |-> pop_popularity_stats,
                     sample |-> Describe(sample_popularity.value)]])

AnalyzeDistribution(population_df, sampled_examples) ==
  Analyze(population_df, sampled_examples, MethodKeys)

AnalyzeSampleDistribution(df, sampled_examples) ==
  Analyze(df, sampled_examples, FunctionKeys)

(***************************************************************************)
(* Inputs of the builder.                                                  *)
(***************************************************************************)
SeqsUpTo(S, n) == UNION {[1 .. k -> S] : k \in 0 .. n}

Labels == {None, "", "A", "B"}

MkPuzzle(id, fen, moves) ==
  [PuzzleId |-> id, FEN |-> fen, Moves |-> moves,
   Rating |-> 1500, Popularity |-> 90]

BuilderPuzzles ==
  {MkPuzzle(0, fen, moves) : fen \in FenStrings,
                             moves \in SeqsUpTo(MoveStr, MaxMoves)}

(***************************************************************************)
(* The builder, called once on one record.                                 *)
(***************************************************************************)
InitBuilder ==
  /\ pc = "start"
  /\ call \in {[op |-> "_create_dspy_example", puzzle |-> p, control_group |-> g] :
                 p \in BuilderPuzzles, g \in Labels}
  /\ ret = NoRet
  /\ sampled_df = <<>>
  /\ np_random = 0
  /\ samplers = <<>>
  /\ first = NoRet

CallCreateDspyExample ==
  /\ pc = "start"
  /\ call.op = "_create_dspy_example"
  /\ ret' = CreateDspyExample(call.puzzle, call.control_group)
  /\ pc' = "done"
  /\ UNCHANGED <<call, sampled_df, np_random, samplers, first>>

NextBuilder == CallCreateDspyExample

SpecBuilder == InitBuilder /\ [][NextBuilder]_vars

(***************************************************************************)
(* The assembler, called once on one DataFrame.                            *)
(***************************************************************************)
StartFen == [pos |-> 0, ep |-> "-"]

\* The move lists of the assembler's records: empty, one ply, two legal
\* plies, an illegal first ply of two, an illegal last ply.
DfMoveLists ==
  {<<>>, <<"e2e4">>, <<"g1f3", "e2e4">>, <<"e7e5", "e2e4">>, <<"g1f3", "g1f3">>}

\* Index labels of a DataFrame of k rows: the default 0 .. k-1, the same
\* reversed (a reordered sample), and 1 .. k (what is left of a larger
\* frame after its first row is filtered out).
IndexLabels(k) ==
  {[p \in 1 .. k |-> p - 1], [p \in 1 .. k |-> k - p], [p \in 1 .. k |-> p]}

DataFrames ==
  UNION {{[p \in 1 .. k |-> [idx |-> index[p],
                             puzzle |-> MkPuzzle(index[p], StartFen, moves[p])]] :
             index \in IndexLabels(k), moves \in [1 .. k -> DfMoveLists]} :
         k \in 0 .. MaxRecords}

ControlGroups(k) == {NoSeries} \cup {Series(v) : v \in [1 .. k -> {"A", "B"}]}

InitAssembler ==
  /\ pc = "start"
  /\ call \in {[op |-> "_create_examples_from_df", df |-> d, control_groups |-> g] :
                 d \in DataFrames, g \in UNION {ControlGroups(k) : k \in 0 .. MaxRecords}}
  /\ call.control_groups.present => Len(call.control_groups.values) = Len(call.df)
  /\ ret = NoRet
  /\ sampled_df = <<>>
  /\ np_random = 0
  /\ samplers = <<>>
  /\ first = NoRet

CallCreateExamplesFromDf ==
  /\ pc = "start"
  /\ call.op = "_create_examples_from_df"
  /\ ret' = CreateExamplesFromDf(call.df, call.control_groups)
  /\ pc' = "done"
  /\ UNCHANGED <<call, sampled_df, np_random, samplers, first>>

NextAssembler == CallCreateExamplesFromDf

SpecAssembler == InitAssembler /\ [][NextAssembler]_vars

(***************************************************************************)
(* The sampler, called once on one population.                             *)
(***************************************************************************)
Seeds == {DefaultSeed, 1}

\* Positions a population row may hold after the opponent's move: one with
\* legal moves, a mate, and a string that does not parse.
RowFens == {[pos |-> 0, ep |-> "-"], [pos |-> 3, ep |-> "-"], [pos |-> -1, ep |-> "-"]}

MkRow(id, fen) ==
  [PuzzleId |-> id, puzzle_fen |-> fen, expected_move |-> "g1f3",
   Rating |-> 1500, Popularity |-> 90]

\* The column sets of a population: every column, the frame without
\* opponent_move, the frame without PuzzleId.
ColumnSets ==
  {ExampleColumns, ExampleColumns \ {"opponent_move"}, ExampleColumns \ {"PuzzleId"}}

Populations(fens) ==
  UNION {{[columns |-> c, rows |-> [p \in 1 .. k |-> MkRow(p, f[p])]] :
             c \in ColumnSets, f \in [1 .. k -> fens]} :
         k \in 0 .. MaxPop}

SampleSizes == -1 .. MaxPop + 1

InitSampler ==
  /\ pc = "start"
  /\ \E seed \in Seeds :
       /\ samplers = <<seed>>
       /\ np_random = SeedState(seed)
  /\ call \in {[op |-> "create_sample", self |-> 1, df |-> d, sample_size |-> n] :
                 d \in Populations(RowFens), n \in SampleSizes}
  /\ ret = NoRet
  /\ sampled_df = <<>>
  /\ first = NoRet

CallCreateSample ==
  /\ pc = "start"
  /\ call.op = "create_sample"
  /\ LET sampled == SampledDf(samplers[call.self], call.df, call.sample_size)
     IN sampled_df' = IF sampled.kind = "raise" THEN <<>> ELSE sampled.value
  /\ ret' = CreateSample(samplers[call.self], call.df, call.sample_size)
  /\ pc' = "done"
  /\ UNCHANGED <<call, np_random, samplers, first>>

NextSampler == CallCreateSample

SpecSampler == InitSampler /\ [][NextSampler]_vars

(***************************************************************************)
(* Samplers built and used one after the other on one population.          *)
(***************************************************************************)
MaxSamplers == 3     \* most sampler objects built in one run

InitSeeded ==
  /\ pc = "idle"
  /\ call \in {[op |-> "load", df |-> d] :
                 d \in {q \in Populations({StartFen}) :
                          q.columns = ExampleColumns}}
  /\ ret = NoRet
  /\ sampled_df = <<>>
  /\ np_random \in RngStates
  /\ samplers = <<>>
  /\ first = NoRet

\* RandomSampler(random_state): BaseSampler.__init__
Construct(random_state) ==
  /\ Len(samplers) < MaxSamplers
  /\ samplers' = Append(samplers, random_state)
  /\ np_random' = SeedState(random_state)
  /\ UNCHANGED <<pc, call, ret, sampled_df, first>>

\* sampler.create_sample(df, sample_size) on the self-th sampler built
CreateSampleOn(self, sample_size) ==
  /\ self \in 1 .. Len(samplers)
  /\ LET sampled == SampledDf(samplers[self], call.df, sample_size)
         result == CreateSample(samplers[self], call.df, sample_size)
         rows == IF sampled.kind = "raise" THEN <<>> ELSE sampled.value
     IN /\ sampled_df' = rows
        /\ ret' = result
        /\ call' = [op |-> "create_sample", self |-> self, df |-> call.df,
                    sample_size |-> sample_size]
        /\ first' = IF first = NoRet
                      THEN [kind |-> "call", random_state |-> samplers[self],
                            self |-> self, sample_size |-> sample_size,
                            ret |-> result, sampled_df |-> rows]
                      ELSE first
  /\ pc' = "done"
  /\ UNCHANGED <<np_random, samplers>>

NextSeeded ==
  \/ \E random_state \in Seeds : Construct(random_state)
  \/ \E self \in 1 .. MaxSamplers, n \in SampleSizes : CreateSampleOn(self, n)

SpecSeeded == InitSeeded /\ [][NextSeeded]_vars

(***************************************************************************)
(* The analyzers, called once on a population and a list of examples.      *)
(***************************************************************************)
Ratings == {1500, 1600}

StatRows == [Rating : Ratings, Popularity : {90}]
StatExamples == {[metadata |-> [rating |-> r, popularity |-> 90]] : r \in Ratings}

InitAnalyzer ==
  /\ pc = "start"
  /\ call \in {[op |-> "analyze", population_df |-> d, sampled_examples |-> e] :
                 d \in SeqsUpTo(StatRows, MaxStat),
                 e \in SeqsUpTo(StatExamples, MaxStat)}
  /\ ret = NoRet
  /\ sampled_df = <<>>
  /\ np_random = 0
  /\ samplers = <<>>
  /\ first = NoRet

CallAnalyzeDistribution ==
  /\ pc = "start"
  /\ ret' = AnalyzeDistribution(call.population_df, call.sampled_examples)
  /\ call' = [call EXCEPT !.op = "analyze_distribution"]
  /\ pc' = "done"
  /\ UNCHANGED <<sampled_df, np_random, samplers, first>>

CallAnalyzeSampleDistribution ==
  /\ pc = "start"
  /\ ret' = AnalyzeSampleDistribution(call.population_df, call.sampled_examples)
  /\ call' = [call EXCEPT !.op = "analyze_sample_distribution"]
  /\ pc' = "done"
  /\ UNCHANGED <<sampled_df, np_random, samplers, first>>

NextAnalyzer == CallAnalyzeDistribution \/ CallAnalyzeSampleDistribution

SpecAnalyzer == InitAnalyzer /\ [][NextAnalyzer]_vars

(***************************************************************************)
(* Properties of the builder.                                              *)
(***************************************************************************)
Range(f) == {f[x] : x \in DOMAIN f}

\* The board on which ply k (0-based) of a record is decided when the
\* solution is played out from the record's start position.
RECURSIVE BoardAtPly(_, _)
BoardAtPly(puzzle, k) ==
  IF k = 0
    THEN [pos |-> puzzle.FEN.pos, ep |-> puzzle.FEN.ep]
    ELSE BoardAfter(BoardAtPly(puzzle, k - 1), puzzle.Moves[k])

\* The first n solution moves are legal in sequence from the start position.
LegalPrefix(puzzle, n) ==
  /\ puzzle.FEN.pos \in Pos
  /\ \A k \in 0 .. n - 1 :
       puzzle.Moves[k + 1] \in SeqToSet(LegalMovesUci(BoardAtPly(puzzle, k)))

AllLegal(puzzle) == LegalPrefix(puzzle, Len(puzzle.Moves))

BuilderDone == pc = "done" /\ call.op = "_create_dspy_example"

\* C1: a record with N >= 1 solution moves, all legal in sequence, yields
\* exactly N examples; example k has move_index k and expected_move
\* moves[k]; its possible_moves has the keys 0 .. (legal moves - 1) in the
\* engine's order and holds expected_move as a value.
C1_OneExamplePerPly ==
  (BuilderDone /\ Len(call.puzzle.Moves) >= 1 /\ AllLegal(call.puzzle)) =>
     /\ ret.kind = "return"
     /\ Len(ret.value) = Len(call.puzzle.Moves)
     /\ \A k \in 0 .. Len(call.puzzle.Moves) - 1 :
          LET ex == ret.value[k + 1]
              legal == LegalMovesUci(BoardAtPly(call.puzzle, k))
          IN /\ ex.move_index = k
             /\ ex.expected_move = call.puzzle.Moves[k + 1]
             /\ DOMAIN ex.possible_moves = 0 .. Len(legal) - 1
             /\ \A i \in 0 .. Len(legal) - 1 :
                  ex.possible_moves[i] = legal[i + 1]
             /\ ex.expected_move \in Range(ex.possible_moves)

C1_Witness ==
  /\ BuilderDone
  /\ Len(call.puzzle.Moves) >= 3
  /\ AllLegal(call.puzzle)
  /\ ret.kind = "return"
  /\ Len(ret.value) = Len(call.puzzle.Moves)

\* C2: the positions of the examples form the replay chain.  Example 0
\* shows the position string of the start position; example k >= 1 shows
\* the position reached by playing example k-1's expected_move in example
\* k-1's position.  The last solution move is never played: a record whose
\* moves before the last are legal is built whatever its last move is.
C2_ReplayChain ==
  (BuilderDone /\ Len(call.puzzle.Moves) >= 1
      /\ LegalPrefix(call.puzzle, Len(call.puzzle.Moves) - 1)) =>
     /\ ret.kind = "return"
     /\ Len(ret.value) = Len(call.puzzle.Moves)
     /\ ret.value[1].puzzle = BoardFen(ParseFen(call.puzzle.FEN).value)
     /\ \A k \in 1 .. Len(ret.value) - 1 :
          LET prev == ret.value[k]
          IN ret.value[k + 1].puzzle =
               BoardFen(PushUci(ParseFen(prev.puzzle).value,
                                prev.expected_move).value)

\* A record of several legal plies whose start string carries an
\* en-passant square that the engine's own string drops, and whose replay
\* passes a board with an en-passant square that its string does not show.
C2_Witness ==
  /\ BuilderDone
  /\ AllLegal(call.puzzle)
  /\ Len(call.puzzle.Moves) >= 3
  /\ ret.kind = "return"
  /\ ret.value[1].puzzle # call.puzzle.FEN
  /\ BoardAtPly(call.puzzle, 2) # ParseFen(ret.value[3].puzzle).value

\* C5: every emitted example has its expected_move among the values of its
\* possible_moves, for every record; a record for which that cannot hold
\* contributes no example.
C5_ExpectedAmongOptions ==
  (BuilderDone /\ ret.kind = "return") =>
     \A k \in 1 .. Len(ret.value) :
        ret.value[k].expected_move \in Range(ret.value[k].possible_moves)

(***************************************************************************)
(* Properties of the assembler.                                            *)
(***************************************************************************)
AssemblerDone == pc = "done" /\ call.op = "_create_examples_from_df"

\* The label at the same place of the labels sequence as the p-th record.
AlignedLabel(p) ==
  IF call.control_groups.present THEN call.control_groups.values[p] ELSE None

\* The examples the builder returns for the p-th record built with its
\* aligned label; nothing for a record the builder does not build.
BuiltAt(p) ==
  LET r == CreateDspyExample(call.df[p].puzzle, AlignedLabel(p))
  IN IF r.kind = "return" THEN r.value ELSE <<>>

\* The per-record example sequences of the records p .. K, one after the
\* other in record order.
RECURSIVE ConcatFrom(_)
ConcatFrom(p) ==
  IF p > Len(call.df) THEN <<>> ELSE BuiltAt(p) \o ConcatFrom(p + 1)

EmptyRecords == {p \in 1 .. Len(call.df) : call.df[p].puzzle.Moves = <<>>}

\* Every record is either empty or has only legal solution moves.
EmptyOrLegalRecords ==
  \A p \in 1 .. Len(call.df) :
     p \in EmptyRecords \/ AllLegal(call.df[p].puzzle)

DefaultIndex == \A p \in 1 .. Len(call.df) : call.df[p].idx = p - 1

\* C3: a record with a solution move that is illegal at its ply fails
\* alone: the assembler goes on and returns the examples of all the other
\* records.
C3_IllegalMoveIsLocal ==
  (AssemblerDone /\ ~call.control_groups.present) =>
     /\ ret.kind = "return"
     /\ ret.value = ConcatFrom(1)

\* C4: of K records, the j with an empty move list are built to None
\* without raising, and the assembler returns the example sequences of the
\* other K-j records, each in ply order, one after the other in record
\* order (for a frame with its default index when labels are given).
C4_SkipsEmptyKeepsOrder ==
  (AssemblerDone /\ EmptyOrLegalRecords
      /\ (call.control_groups.present => DefaultIndex)) =>
     /\ \A p \in EmptyRecords :
          CreateDspyExample(call.df[p].puzzle, AlignedLabel(p)) = ReturnNone
     /\ ret.kind = "return"
     /\ ret.value = ConcatFrom(1)
     /\ \A k \in 1 .. Len(ret.value) - 1 :
          \/ /\ ret.value[k + 1].puzzle_id = ret.value[k].puzzle_id
             /\ ret.value[k + 1].move_index = ret.value[k].move_index + 1
          \/ /\ ret.value[k + 1].puzzle_id # ret.value[k].puzzle_id
             /\ ret.value[k + 1].move_index = 0

\* A record of two plies, an empty record and a record of one ply, in a
\* frame whose index labels run backwards.
C4_Witness ==
  /\ AssemblerDone
  /\ EmptyOrLegalRecords
  /\ Len(call.df) = 3
  /\ EmptyRecords = {2}
  /\ Len(call.df[1].puzzle.Moves) = 2
  /\ ~DefaultIndex
  /\ ret.kind = "return"
  /\ Len(ret.value) = 3
  /\ ret.value[3].puzzle_id = call.df[3].idx

\* C10: with labels given, the record at place i of the frame is built
\* with the label at place i of the labels, whatever index labels the frame
\* carries; every example of the record carries that label; and the labels
\* change neither the number of examples nor their positions and options.
C10_LabelsAlignedByPosition ==
  (AssemblerDone /\ call.control_groups.present /\ EmptyOrLegalRecords) =>
     LET plain == CreateExamplesFromDf(call.df, NoSeries)
     IN /\ ret.kind = "return"
        /\ \A p \in 1 .. Len(call.df) : \A k \in 1 .. Len(ret.value) :
             ret.value[k].puzzle_id = call.df[p].idx =>
               ret.value[k].metadata.control_group = call.control_groups.values[p]
        /\ Len(ret.value) = Len(plain.value)
        /\ \A k \in 1 .. Len(ret.value) :
             /\ ret.value[k].puzzle = plain.value[k].puzzle
             /\ ret.value[k].possible_moves = plain.value[k].possible_moves

(***************************************************************************)
(* Properties of the sampler.                                              *)
(***************************************************************************)
SamplerDone == pc = "done" /\ call.op = "create_sample"

Ids(rows) == {rows[i].PuzzleId : i \in 1 .. Len(rows)}

\* The row builds an example: its position parses and has a legal move,
\* and the frame carries every column the example reads.
Constructs(df, row) ==
  /\ ExampleColumns \subseteq df.columns
  /\ row.puzzle_fen.pos \in Pos
  /\ LegalMovesUci([pos |-> row.puzzle_fen.pos, ep |-> row.puzzle_fen.ep]) # <<>>

\* The selected rows that build an example, in selection order.
RECURSIVE ConstructedFrom(_)
ConstructedFrom(p) ==
  IF p > Len(sampled_df) THEN <<>>
  ELSE (IF Constructs(call.df, sampled_df[p]) THEN <<sampled_df[p]>> ELSE <<>>)
         \o ConstructedFrom(p + 1)

\* C6: create_sample is a function of (population, sample_size, seed): a
\* call returns what the first call of the run with the same size and seed
\* returned, selection and examples, in the same order, on the same
\* sampler or on another one built with the same seed, whatever samplers
\* were built and whatever calls were made in between.
C6_Deterministic ==
  (SamplerDone /\ first # NoRet
      /\ samplers[call.self] = first.random_state
      /\ call.sample_size = first.sample_size) =>
     /\ ret = first.ret
     /\ sampled_df = first.sampled_df

\* The second call is made on another sampler than the first, after the
\* process-wide generator was reseeded with another seed, and draws rows
\* in another order than the population's.
C6_Witness ==
  /\ SamplerDone
  /\ first # NoRet
  /\ call.self # first.self
  /\ samplers[call.self] = first.random_state
  /\ call.sample_size = first.sample_size
  /\ np_random # SeedState(first.random_state)
  /\ Len(sampled_df) >= 2
  /\ sampled_df[1].PuzzleId > sampled_df[2].PuzzleId
  /\ ret.kind = "return"
  /\ Len(ret.value) >= 1

\* C7 as stated: with sample_size above the population size the call does
\* not fail and returns exactly len(population) rows, none twice (stated
\* for the frames that carry every column).
C7_ReturnsPopulationSize ==
  (SamplerDone /\ call.sample_size > Len(call.df.rows)
      /\ call.df.columns = ExampleColumns) =>
     /\ ret.kind = "return"
     /\ Len(ret.value) = Len(call.df.rows)
     /\ \A i, j \in 1 .. Len(ret.value) :
          i # j => ret.value[i].puzzle_id # ret.value[j].puzzle_id

\* C7 amended: for sample_size >= 0 the draw never fails and selects
\* exactly min(sample_size, len(population)) rows of the population, none
\* twice (len(population) rows when sample_size is larger); the call
\* returns one example for each selected row that builds one, so at most
\* that many, and exactly that many when every selected row builds one.
C7_ClampedSelection ==
  (SamplerDone /\ call.sample_size >= 0) =>
     /\ ret # Raise("ValueError")
     /\ Len(sampled_df) = Min(call.sample_size, Len(call.df.rows))
     /\ call.sample_size > Len(call.df.rows) => Len(sampled_df) = Len(call.df.rows)
     /\ \A i \in 1 .. Len(sampled_df) :
          \E q \in 1 .. Len(call.df.rows) : sampled_df[i] = call.df.rows[q]
     /\ Cardinality(Ids(sampled_df)) = Len(sampled_df)
     /\ ret.kind = "return" =>
          /\ Len(ret.value) <= Len(sampled_df)
          /\ Len(ret.value) = Len(ConstructedFrom(1))
          /\ \A i, j \in 1 .. Len(ret.value) :
               i # j => ret.value[i].puzzle_id # ret.value[j].puzzle_id

\* A request above the population size on a population with a mated row:
\* every row is selected and fewer examples than rows come back.
C7_Witness ==
  /\ SamplerDone
  /\ call.sample_size > Len(call.df.rows)
  /\ Len(sampled_df) = MaxPop
  /\ ret.kind = "return"
  /\ Len(ret.value) = 2

\* C8: a selected row with no legal move, or whose example construction
\* fails for any reason, is skipped without aborting the call; the result
\* holds one example for each selected row that builds one, in selection
\* order, each with a non-empty possible_moves.
C8_FailedRowsAreSkipped ==
  (SamplerDone /\ call.sample_size >= 0) =>
     /\ ret.kind = "return"
     /\ Len(ret.value) = Len(ConstructedFrom(1))
     /\ \A k \in 1 .. Len(ret.value) :
          /\ ret.value[k].puzzle_id = ConstructedFrom(1)[k].PuzzleId
          /\ DOMAIN ret.value[k].possible_moves # {}

(***************************************************************************)
(* Properties of the analyzers.                                            *)
(***************************************************************************)
AnalyzerDone ==
  pc = "done" /\ call.op \in {"analyze_distribution", "analyze_sample_distribution"}

\* C9: called with an empty list of sampled examples, the analyzers do not
\* fail: they return a report whose population side is computed as usual
\* and whose sample side is empty.
C9_EmptySampleTolerated ==
  (AnalyzerDone /\ call.sampled_examples = <<>>) =>
     /\ ret.kind = "return"
     /\ ret.value.rating_stats.population =
          Describe(ColumnOfRows(call.population_df, "Rating"))
     /\ ret.value.popularity_stats.population =
          Describe(ColumnOfRows(call.population_df, "Popularity"))
     /\ ret.value.rating_stats.sample.count = 0
     /\ ret.value.popularity_stats.sample.count = 0

====
